---- MODULE Spec2Model ----
(***************************************************************************)
(* Model of the remote session manager (services/ssh_client.py), the       *)
(* metadata store (models/database.py) and the handlers of ui/ and main.py *)
(* that drive them.                                                        *)
(*                                                                         *)
(* Texts (command output, error messages, paths) are sequences of          *)
(* one-character strings, so that strip/split/lower/join are computed.     *)
(* An optional value (Python None or a value) is a sequence of length 0    *)
(* or 1.                                                                   *)
(***************************************************************************)
EXTENDS Integers, Sequences, FiniteSets, TLC

(* ------------------------------ bounds --------------------------------- *)

\* Connection objects and transfer channels a run may create.
MaxHandles == 2
\* Rows a run may insert into each table of the metadata store.
MaxRows == 2
\* Length of the raw listing texts of the parser specification.
MaxRawLen == 5

(* ------------------------------ texts ---------------------------------- *)

None == 0

NoText == <<>>
Some(x) == <<x>>

CR == "\r"
LF == "\n"
SP == " "
CRLF == <<CR, LF>>

IsSpace(c) == c \in {SP, "\t", CR, LF}

UpperToLower ==
  [c \in {"A", "D", "E", "I", "L", "R", "S", "T", "X", "Y"} |->
     CASE c = "A" -> "a" [] c = "D" -> "d" [] c = "E" -> "e" [] c = "I" -> "i"
       [] c = "L" -> "l" [] c = "R" -> "r" [] c = "S" -> "s" [] c = "T" -> "t"
       [] c = "X" -> "x" [] c = "Y" -> "y"]

\* str.lower()
Lower(t) ==
  [i \in 1..Len(t) |-> IF t[i] \in DOMAIN UpperToLower THEN UpperToLower[t[i]] ELSE t[i]]

\* `m in t` for strings
Contains(t, m) ==
  \E i \in 0..(Len(t) - Len(m)) : SubSeq(t, i + 1, i + Len(m)) = m

\* str.strip(): leading and trailing whitespace of the whole text removed
RECURSIVE LStrip(_)
LStrip(t) == IF t # <<>> /\ IsSpace(Head(t)) THEN LStrip(Tail(t)) ELSE t

RECURSIVE RStrip(_)
RStrip(t) ==
  IF t # <<>> /\ IsSpace(t[Len(t)]) THEN RStrip(SubSeq(t, 1, Len(t) - 1)) ELSE t

Strip(t) == RStrip(LStrip(t))

\* str.split(sep), sep non-empty: the pieces between the occurrences of sep,
\* found left to right; always at least one piece.
RECURSIVE SplitFrom(_, _, _)
SplitFrom(t, sep, cur) ==
  IF t = <<>> THEN <<cur>>
  ELSE IF Len(t) >= Len(sep) /\ SubSeq(t, 1, Len(sep)) = sep
       THEN <<cur>> \o SplitFrom(SubSeq(t, Len(sep) + 1, Len(t)), sep, <<>>)
       ELSE SplitFrom(Tail(t), sep, Append(cur, Head(t)))

Split(t, sep) == SplitFrom(t, sep, <<>>)

\* [x for x in xs if x]
RECURSIVE NonEmpty(_)
NonEmpty(xs) ==
  IF xs = <<>> THEN <<>>
  ELSE IF Head(xs) = <<>> THEN NonEmpty(Tail(xs))
       ELSE <<Head(xs)>> \o NonEmpty(Tail(xs))

\* str.replace("\\", "/")
ReplaceBackslash(t) == [i \in 1..Len(t) |-> IF t[i] = "\\" THEN "/" ELSE t[i]]

\* os.path.join(a, b).replace("\\", "/")
PathJoin(a, b) ==
  ReplaceBackslash(
    IF b # <<>> /\ Head(b) = "/" THEN b
    ELSE IF a = <<>> \/ a[Len(a)] = "/" THEN a \o b
    ELSE a \o <<"/">> \o b)

\* os.path.basename / dirname of a path with "/" separators
RECURSIVE LastSlashFrom(_, _)
LastSlashFrom(p, i) ==
  IF i = 0 THEN 0 ELSE IF p[i] = "/" THEN i ELSE LastSlashFrom(p, i - 1)

LastSlash(p) == LastSlashFrom(p, Len(p))

Basename(p) == SubSeq(p, LastSlash(p) + 1, Len(p))
Dirname(p) == SubSeq(p, 1, LastSlash(p) - 1)

\* the parser without its `if folder` filter
ParseNames_keeps_empty(output) == Split(output, CRLF)

\* the listing parser of list_folders / list_files applied to the text
\* execute_command hands back (already stripped there)
ParseNames(output) == NonEmpty(Split(output, CRLF))

(* --------------------------- configuration ----------------------------- *)

\* REMOTE_DIR, the remote root
Root == <<"/", "r">>

\* folder names the handlers are given
FolderNames == {<<"a">>, <<"b">>}

\* local files the user may pick for upload: two paths, one base name
LocalPaths == {<<"l", "/", "f">>, <<"m", "/", "f">>}
LocalSize(p) == IF Head(p) = "l" THEN 1 ELSE 2

\* one folder and one file, for the specifications that vary something else
OneName == {<<"a">>}
OneLocal == {<<"l", "/", "f">>}

(* ------------------------ texts of the remote side --------------------- *)

Marker == <<"a", "l", "r", "e", "a", "d", "y", SP, "e", "x", "i", "s", "t", "s">>

\* stderr of mkdir on an existing directory, in two spellings
ErrExistsLower == <<"d", "i", "r", SP>> \o Marker \o CRLF
ErrExistsUpper ==
  <<"D", "I", "R", SP, "A", "L", "R", "E", "A", "D", "Y", SP,
    "E", "X", "I", "S", "T", "S">> \o CRLF
\* stderr of a command the remote refuses
ErrDenied == <<"d", "e", "n", "i", "e", "d">> \o CRLF
\* str(e) of an exception of the transport
ErrTransport == <<"c", "l", "o", "s", "e", "d">>
\* str(e) of an operation on a client object that holds no session
ErrNoSession == <<"n", "o", SP, "s", "e", "s", "s", "i", "o", "n">>
\* str(e) of an exception inside connect()
ErrConnect == <<"r", "e", "f", "u", "s", "e", "d">>

\* the prefixes of the messages of connect() and open_sftp()
SshPrefix ==
  <<"S", "S", "H", SP, "C", "o", "n", "n", "e", "c", "t", "i",
    "o", "n", SP, "E", "r", "r", "o", "r", ":", SP>>
SftpPrefix ==
  <<"S", "F", "T", "P", SP, "C", "o", "n", "n", "e", "c", "t",
    "i", "o", "n", SP, "E", "r", "r", "o", "r", ":", SP>>

\* what the remote facility may do with one call; drawn per operation
ExecOutcomes == {"ok", "fail", "silent", "raise"}
ExcTexts == {NoText, ErrTransport}

\* an oracle with every call succeeding, changed where an action draws
Smooth ==
  [connectOk |-> TRUE, exec |-> "ok", upper |-> FALSE, exc |-> ErrTransport,
   sftpOk |-> TRUE, putOk |-> TRUE, statOk |-> TRUE,
   closeSftpOk |-> TRUE, closeClientOk |-> TRUE,
   getOk |-> TRUE, removeOk |-> TRUE, dbOk |-> TRUE, localThere |-> TRUE]

VARIABLES
  client,     \* SSHClient.client: None or the id of a connection object
  sftp,       \* SSHClient.sftp: None or the id of a transfer channel
  conns,      \* the connection objects created so far: "new" | "open" | "closed"
  chans,      \* the channels opened so far: [parent, open]
  rDirs,      \* the remote directories, in enumeration order
  rFiles,     \* the remote files, in enumeration order: [path, size]
  dbFolders,  \* table folders: [id, name, full_path]
  dbFiles,    \* table files: [id, name, folder_id, local_path, remote_path, size]
  folderSeq,  \* AUTOINCREMENT of folders
  fileSeq,    \* AUTOINCREMENT of files
  target_folder,   \* upload view: the folder chosen in the selector, or none
  current_folder,  \* browse view: the folder chosen, or none
  file_list,       \* browse view: the names of the rows of the file list
  app,        \* MainApplication: the environment and what __init__ made of it
  last,       \* the last operation: its arguments, result and the calls it made
  raw,        \* parser specification: the raw listing text
  parsed      \* parser specification: what the parser made of it

vars ==
  <<client, sftp, conns, chans, rDirs, rFiles, dbFolders, dbFiles, folderSeq,
    fileSeq, target_folder, current_folder, file_list, app, last, raw, parsed>>

Range(f) == {f[i] : i \in DOMAIN f}

\* The session and the remote side as one value the methods thread through.
Cur ==
  [client |-> client, sftp |-> sftp, conns |-> conns, chans |-> chans,
   rDirs |-> rDirs, rFiles |-> rFiles, log |-> <<>>]

Logged(S, e) == [S EXCEPT !.log = Append(@, e)]

(* --------------------------- SSHClient --------------------------------- *)

\* connect(): the client object is replaced before the connection is tried
connect(S, o) ==
  LET id == Len(S.conns) + 1
      S1 == [S EXCEPT !.client = id,
                      !.conns = Append(@, IF o.connectOk THEN "open" ELSE "new"),
                      !.log = Append(@, [ev |-> "connect", ok |-> o.connectOk])]
  IN IF o.connectOk
     THEN [s |-> S1, ok |-> TRUE, err |-> <<>>]
     ELSE [s |-> S1, ok |-> FALSE, err |-> Some(SshPrefix \o ErrConnect)]

\* `if not self.client: success, error = self.connect()`
EnsureConnected(S, o) ==
  IF S.client = None THEN connect(S, o) ELSE [s |-> S, ok |-> TRUE, err |-> <<>>]

\* whether the client object holds a live session
ClientLive(S) == S.client # None /\ S.conns[S.client] = "open"

\* whether the channel object can carry a request
ChannelLive(S) ==
  /\ S.sftp # None
  /\ S.chans[S.sftp].open
  /\ S.conns[S.chans[S.sftp].parent] = "open"

\* open_sftp(), once the client object is there: lines 42-47
open_sftp_try(c, o) ==
  IF ~c.ok THEN [s |-> c.s, ok |-> FALSE, err |-> c.err]
  ELSE IF ClientLive(c.s) /\ o.sftpOk
       THEN [s |-> [c.s EXCEPT
                      !.sftp = Len(c.s.chans) + 1,
                      !.chans = Append(@, [parent |-> c.s.client, open |-> TRUE]),
                      !.log = Append(@, [ev |-> "open_sftp", ok |-> TRUE])],
             ok |-> TRUE, err |-> <<>>]
       ELSE [s |-> Logged(c.s, [ev |-> "open_sftp", ok |-> FALSE]),
             ok |-> FALSE,
             err |-> Some(SftpPrefix \o
                          (IF ClientLive(c.s) THEN o.exc ELSE ErrNoSession))]

\* open_sftp trying the channel a second time when the first try failed
open_sftp_retry(S, o) ==
  LET r == open_sftp_try(EnsureConnected(S, o), o)
  IN IF r.ok \/ ~EnsureConnected(S, o).ok THEN r
     ELSE open_sftp_try([s |-> r.s, ok |-> TRUE, err |-> <<>>], o)

\* open_sftp()
open_sftp(S, o) == open_sftp_try(EnsureConnected(S, o), o)

\* close(), the release of the client: lines 59-65
close_client(S, o) ==
  IF S.client = None THEN S
  ELSE [S EXCEPT !.client = None,
                 !.conns[S.client] =
                    IF o.closeClientOk /\ @ = "open" THEN "closed" ELSE @,
                 !.log = Append(@, [ev |-> "close_client", ok |-> o.closeClientOk])]

\* close_sftp with the handle left as it was
close_sftp_keeps_handle(S, o) ==
  IF S.sftp = None THEN S
  ELSE [S EXCEPT !.chans[S.sftp].open = IF o.closeSftpOk THEN FALSE ELSE @,
                 !.log = Append(@, [ev |-> "close_sftp", ok |-> o.closeSftpOk])]

\* close(), the release of the channel: lines 51-57
close_sftp(S, o) ==
  IF S.sftp = None THEN S
  ELSE [S EXCEPT !.sftp = None,
                 !.chans[S.sftp].open = IF o.closeSftpOk THEN FALSE ELSE @,
                 !.log = Append(@, [ev |-> "close_sftp", ok |-> o.closeSftpOk])]

\* close with the channel's release not guarded: its exception ends close()
close_unguarded(S, o) ==
  IF S.sftp # None /\ ~o.closeSftpOk
  THEN Logged(S, [ev |-> "close_sftp", ok |-> FALSE])
  ELSE close_client(close_sftp(S, o), o)

\* close(): a release that raises leaves the remote resource as it was
close(S, o) == close_client(close_sftp(S, o), o)

(* ------------------------- the remote shell ---------------------------- *)

\* `dir <path> /b`: one base name per line
RECURSIVE ListingText(_)
ListingText(paths) ==
  IF paths = <<>> THEN <<>>
  ELSE Basename(Head(paths)) \o CRLF \o ListingText(Tail(paths))

RECURSIVE Under(_, _)
Under(paths, dir) ==
  IF paths = <<>> THEN <<>>
  ELSE IF Dirname(Head(paths)) = dir
       THEN <<Head(paths)>> \o Under(Tail(paths), dir)
       ELSE Under(Tail(paths), dir)

FilePaths(files) == [i \in 1..Len(files) |-> files[i].path]

Refused(o) ==
  [raised |-> FALSE, stdout |-> <<>>,
   stderr |-> IF o.exec = "silent" THEN <<>> ELSE ErrDenied, status |-> 1]

\* What exec_command, recv_exit_status and the two reads give for a command
\* on a live session: [raised, msg] or [raised, stdout, stderr, status], and
\* the remote directories afterwards.
RemoteExec(S, o, cmd) ==
  IF ~ClientLive(S) THEN [s |-> S, r |-> [raised |-> TRUE, msg |-> ErrNoSession]]
  ELSE IF o.exec = "raise" THEN [s |-> S, r |-> [raised |-> TRUE, msg |-> o.exc]]
  ELSE IF cmd.kind = "mkdir" THEN
    IF cmd.path \in Range(S.rDirs)
    THEN [s |-> S,
          r |-> [raised |-> FALSE, stdout |-> <<>>,
                 stderr |-> IF o.upper THEN ErrExistsUpper ELSE ErrExistsLower,
                 status |-> 1]]
    ELSE IF o.exec = "ok"
         THEN [s |-> [S EXCEPT !.rDirs = Append(@, cmd.path)],
               r |-> [raised |-> FALSE, stdout |-> <<>>, stderr |-> <<>>, status |-> 0]]
         ELSE [s |-> S, r |-> Refused(o)]
  ELSE IF cmd.kind = "dirs" THEN
    IF o.exec = "ok"
    THEN [s |-> S,
          r |-> [raised |-> FALSE, stdout |-> ListingText(Under(S.rDirs, cmd.path)),
                 stderr |-> <<>>, status |-> 0]]
    ELSE [s |-> S, r |-> Refused(o)]
  ELSE \* "files"
    IF o.exec = "ok" /\ cmd.path \in Range(S.rDirs)
    THEN [s |-> S,
          r |-> [raised |-> FALSE,
                 stdout |-> ListingText(Under(FilePaths(S.rFiles), cmd.path)),
                 stderr |-> <<>>, status |-> 0]]
    ELSE [s |-> S, r |-> Refused(o)]

\* the commands the program builds
MkdirCmd(path) == [kind |-> "mkdir", path |-> path]
DirsCmd(path) == [kind |-> "dirs", path |-> path]
FilesCmd(path) == [kind |-> "files", path |-> path]

\* execute_command, what it returns for what the remote gave: lines 74-82
execute_command_ret(x, kind) ==
  IF x.r.raised
  THEN [s |-> Logged(x.s, [ev |-> "exec", kind |-> kind, ok |-> FALSE, r |-> x.r]),
        out |-> <<>>, err |-> Some(x.r.msg), status |-> -1]
  ELSE [s |-> Logged(x.s, [ev |-> "exec", kind |-> kind, ok |-> TRUE, r |-> x.r]),
        out |-> Some(Strip(x.r.stdout)), err |-> Some(Strip(x.r.stderr)),
        status |-> x.r.status]

\* execute_command going on after a failed connect
execute_command_try_anyway(c, o, cmd) ==
  execute_command_ret(RemoteExec(c.s, o, cmd), cmd.kind)

execute_command_try(c, o, cmd) ==
  IF ~c.ok THEN [s |-> c.s, out |-> <<>>, err |-> c.err, status |-> -1]
  ELSE execute_command_ret(RemoteExec(c.s, o, cmd), cmd.kind)

\* execute_command(command): (output, error, exit_status)
execute_command(S, o, cmd) == execute_command_try(EnsureConnected(S, o), o, cmd)

\* the test without .lower()
MkdirSucceeded_case_sensitive(status, error) ==
  status = 0 \/ Contains(error, Marker)

\* the test of create_folder on what mkdir gave
MkdirSucceeded(status, error) == status = 0 \/ Contains(Lower(error), Marker)

\* create_folder taking only exit status 0 for success
create_folder_ret_exit_only(x, path) ==
  IF x.status = 0
  THEN [s |-> x.s, ok |-> TRUE, val |-> path]
  ELSE [s |-> x.s, ok |-> FALSE, val |-> x.err[1]]

\* create_folder, lines 98-101
create_folder_ret(x, path) ==
  IF MkdirSucceeded(x.status, x.err[1])
  THEN [s |-> x.s, ok |-> TRUE, val |-> path]
  ELSE [s |-> x.s, ok |-> FALSE, val |-> x.err[1]]

create_folder_try(c, o, path) ==
  IF ~c.ok THEN [s |-> c.s, ok |-> FALSE, val |-> c.err[1]]
  ELSE create_folder_ret(execute_command(c.s, o, MkdirCmd(path)), path)

\* create_folder(folder_name): (True, path) or (False, error)
create_folder(S, o, name) ==
  create_folder_try(EnsureConnected(S, o), o, PathJoin(Root, name))

\* the listing parsed whatever the exit status
Listed_ignores_status(x) ==
  IF x.out # <<>>
  THEN [s |-> x.s, names |-> ParseNames(x.out[1]), err |-> <<>>]
  ELSE [s |-> x.s, names |-> <<>>, err |-> x.err]

\* the branch of list_folders / list_files on what the listing command gave
Listed(x) ==
  IF x.status = 0
  THEN [s |-> x.s, names |-> ParseNames(x.out[1]), err |-> <<>>]
  ELSE [s |-> x.s, names |-> <<>>, err |-> x.err]

list_try(c, o, cmd) ==
  IF ~c.ok THEN [s |-> c.s, names |-> <<>>, err |-> c.err]
  ELSE Listed(execute_command(c.s, o, cmd))

\* list_folders(): (names, None) or ([], error)
list_folders(S, o) == list_try(EnsureConnected(S, o), o, DirsCmd(Root))

\* list_files(folder_name): (names, None) or ([], error)
list_files(S, o, name) ==
  list_try(EnsureConnected(S, o), o, FilesCmd(PathJoin(Root, name)))

(* ------------------------ the transfer channel ------------------------- *)

\* the channel opened whether or not one is open
EnsureChannel_always(S, o) == open_sftp(S, o)

\* `if not self.sftp: success, error = self.open_sftp()`
EnsureChannel(S, o) ==
  IF S.sftp = None THEN open_sftp(S, o) ELSE [s |-> S, ok |-> TRUE, err |-> <<>>]

HasFile(S, path) == \E i \in 1..Len(S.rFiles) : S.rFiles[i].path = path
SizeOf(S, path) == (CHOOSE f \in Range(S.rFiles) : f.path = path).size

PutOk(S, o, path) == ChannelLive(S) /\ o.putOk /\ Dirname(path) \in Range(S.rDirs)

\* the remote files after a put of `rec`
Stored(files, rec) ==
  IF \E i \in 1..Len(files) : files[i].path = rec.path
  THEN [i \in 1..Len(files) |-> IF files[i].path = rec.path THEN rec ELSE files[i]]
  ELSE Append(files, rec)

\* sftp.put(local, remote): the remote file holds the local file's bytes
SftpPut(S, o, local, path) ==
  IF PutOk(S, o, path)
  THEN [s |-> [S EXCEPT !.rFiles = Stored(@, [path |-> path, size |-> LocalSize(local)]),
                        !.log = Append(@, [ev |-> "put", ok |-> TRUE])],
        ok |-> TRUE, msg |-> NoText]
  ELSE [s |-> Logged(S, [ev |-> "put", ok |-> FALSE]), ok |-> FALSE,
        msg |-> IF ChannelLive(S) THEN o.exc ELSE ErrNoSession]

\* sftp.stat(remote).st_size
SftpStat(S, o, path) ==
  IF ChannelLive(S) /\ o.statOk /\ HasFile(S, path)
  THEN [s |-> Logged(S, [ev |-> "stat", ok |-> TRUE]), ok |-> TRUE,
        size |-> SizeOf(S, path), msg |-> NoText]
  ELSE [s |-> Logged(S, [ev |-> "stat", ok |-> FALSE]), ok |-> FALSE, size |-> 0,
        msg |-> IF ChannelLive(S) THEN o.exc ELSE ErrNoSession]

\* upload_file, lines 197-201
upload_file_stat(st, path) ==
  IF ~st.ok THEN [s |-> st.s, res |-> <<>>, err |-> Some(st.msg)]
  ELSE [s |-> st.s, res |-> Some([path |-> path, size |-> st.size]), err |-> <<>>]

\* upload_file, lines 194-195
upload_file_put(p, o, path) ==
  IF ~p.ok THEN [s |-> p.s, res |-> <<>>, err |-> Some(p.msg)]
  ELSE upload_file_stat(SftpStat(p.s, o, path), path)

\* upload_file, lines 183-192
upload_file_chan(ch, o, local, name) ==
  IF ~ch.ok THEN [s |-> ch.s, res |-> <<>>, err |-> ch.err]
  ELSE upload_file_put(
         SftpPut(ch.s, o, local, PathJoin(PathJoin(Root, name), Basename(local))),
         o, PathJoin(PathJoin(Root, name), Basename(local)))

\* upload_file going on after create_folder failed
upload_file_folder_anyway(f, o, local, name) ==
  upload_file_chan(EnsureChannel(f.s, o), o, local, name)

\* upload_file, lines 178-181
upload_file_folder(f, o, local, name) ==
  IF ~f.ok THEN [s |-> f.s, res |-> <<>>, err |-> Some(f.val)]
  ELSE upload_file_chan(EnsureChannel(f.s, o), o, local, name)

upload_file_try(c, o, local, name) ==
  IF ~c.ok THEN [s |-> c.s, res |-> <<>>, err |-> c.err]
  ELSE upload_file_folder(create_folder(c.s, o, name), o, local, name)

\* upload_file(local_file_path, folder_name): ({path, size}, None) or (None, error)
upload_file(S, o, local, name) ==
  upload_file_try(EnsureConnected(S, o), o, local, name)

\* os.path.join(self.remote_dir, folder_name, file_name).replace("\\", "/")
RemotePath(folder, fname) == PathJoin(PathJoin(Root, folder), fname)

\* os.path.join(local_directory, file_name)
LocalJoin(dir, fname) ==
  IF fname # <<>> /\ Head(fname) = "/" THEN fname
  ELSE IF dir = <<>> \/ dir[Len(dir)] = "/" THEN dir \o fname
  ELSE dir \o <<"/">> \o fname

\* str(e) of a transfer request on a path the remote does not hold
ErrNoFile == <<"n", "o", SP, "f", "i", "l", "e">>

\* the message of a request on the channel that fails
ChannelMsg(S, o, path) ==
  IF ~ChannelLive(S) THEN ErrNoSession
  ELSE IF ~HasFile(S, path) THEN ErrNoFile
  ELSE o.exc

\* get_file_info, lines 162-166; the model keeps the size of the stat
get_file_info_stat(st) ==
  IF ~st.ok THEN [s |-> st.s, res |-> <<>>, err |-> Some(st.msg)]
  ELSE [s |-> st.s, res |-> Some([size |-> st.size]), err |-> <<>>]

\* get_file_info, lines 156-159
get_file_info_chan(ch, o, path) ==
  IF ~ch.ok THEN [s |-> ch.s, res |-> <<>>, err |-> ch.err]
  ELSE get_file_info_stat(SftpStat(ch.s, o, path))

\* get_file_info opening a channel without looking at the one it holds
get_file_info_try_reopen(c, o, path) ==
  IF ~c.ok THEN [s |-> c.s, res |-> <<>>, err |-> c.err]
  ELSE get_file_info_chan(open_sftp(c.s, o), o, path)

get_file_info_try(c, o, path) ==
  IF ~c.ok THEN [s |-> c.s, res |-> <<>>, err |-> c.err]
  ELSE get_file_info_chan(EnsureChannel(c.s, o), o, path)

\* get_file_info(folder_name, file_name): ({size, mtime}, None) or (None, error)
get_file_info(S, o, folder, fname) ==
  get_file_info_try(EnsureConnected(S, o), o, RemotePath(folder, fname))

\* sftp.get(remote, local)
SftpGet(S, o, path) ==
  IF ChannelLive(S) /\ o.getOk /\ HasFile(S, path)
  THEN [s |-> Logged(S, [ev |-> "get", ok |-> TRUE]), ok |-> TRUE, msg |-> NoText]
  ELSE [s |-> Logged(S, [ev |-> "get", ok |-> FALSE]), ok |-> FALSE,
        msg |-> ChannelMsg(S, o, path)]

\* download_file, lines 224-226
download_file_get(g, local) ==
  IF ~g.ok THEN [s |-> g.s, res |-> <<>>, err |-> Some(g.msg)]
  ELSE [s |-> g.s, res |-> Some([path |-> local]), err |-> <<>>]

\* download_file, lines 214-221
download_file_chan(ch, o, folder, fname, dir) ==
  IF ~ch.ok THEN [s |-> ch.s, res |-> <<>>, err |-> ch.err]
  ELSE download_file_get(SftpGet(ch.s, o, RemotePath(folder, fname)),
                         LocalJoin(dir, fname))

download_file_try(c, o, folder, fname, dir) ==
  IF ~c.ok THEN [s |-> c.s, res |-> <<>>, err |-> c.err]
  ELSE download_file_chan(EnsureChannel(c.s, o), o, folder, fname, dir)

\* download_file(folder_name, file_name, local_directory):
\* ({path}, None) or (None, error)
download_file(S, o, folder, fname, dir) ==
  download_file_try(EnsureConnected(S, o), o, folder, fname, dir)

\* the remote files without the one at `path`
RECURSIVE Without(_, _)
Without(files, path) ==
  IF files = <<>> THEN <<>>
  ELSE IF Head(files).path = path THEN Without(Tail(files), path)
  ELSE <<Head(files)>> \o Without(Tail(files), path)

\* sftp.remove(remote)
SftpRemove(S, o, path) ==
  IF ChannelLive(S) /\ o.removeOk /\ HasFile(S, path)
  THEN [s |-> [S EXCEPT !.rFiles = Without(@, path),
                        !.log = Append(@, [ev |-> "remove", ok |-> TRUE])],
        ok |-> TRUE, msg |-> NoText]
  ELSE [s |-> Logged(S, [ev |-> "remove", ok |-> FALSE]), ok |-> FALSE,
        msg |-> ChannelMsg(S, o, path)]

\* delete_file, lines 248-250
delete_file_remove(rm) ==
  IF ~rm.ok THEN [s |-> rm.s, ok |-> FALSE, err |-> Some(rm.msg)]
  ELSE [s |-> rm.s, ok |-> TRUE, err |-> <<>>]

\* delete_file, lines 239-245
delete_file_chan(ch, o, path) ==
  IF ~ch.ok THEN [s |-> ch.s, ok |-> FALSE, err |-> ch.err]
  ELSE delete_file_remove(SftpRemove(ch.s, o, path))

delete_file_try(c, o, path) ==
  IF ~c.ok THEN [s |-> c.s, ok |-> FALSE, err |-> c.err]
  ELSE delete_file_chan(EnsureChannel(c.s, o), o, path)

\* delete_file(folder_name, file_name): (True, None) or (False, error)
delete_file(S, o, folder, fname) ==
  delete_file_try(EnsureConnected(S, o), o, RemotePath(folder, fname))

(* ------------------------- DatabaseManager ----------------------------- *)

Db ==
  [folders |-> dbFolders, files |-> dbFiles, folderSeq |-> folderSeq,
   fileSeq |-> fileSeq]

\* get_folder_id(folder_name): the id, or None
get_folder_id(D, name) ==
  IF \E r \in D.folders : r.name = name
  THEN (CHOOSE r \in D.folders : r.name = name).id
  ELSE None

\* add_folder(folder_name, full_path): INSERT OR IGNORE on the unique name;
\* (False, message) and no change when the statement raises
add_folder(D, o, name, path) ==
  IF ~o.dbOk THEN [d |-> D, ok |-> FALSE]
  ELSE IF \E r \in D.folders : r.name = name THEN [d |-> D, ok |-> TRUE]
  ELSE [d |-> [D EXCEPT !.folderSeq = @ + 1,
                        !.folders = @ \cup {[id |-> D.folderSeq + 1, name |-> name,
                                             full_path |-> path]}],
        ok |-> TRUE]

\* the order of ORDER BY name on the characters folder names are made of
CharRank(c) == CASE c = "-" -> 1 [] c = "_" -> 2 [] c = "a" -> 3 [] c = "b" -> 4

RECURSIVE TextBefore(_, _)
TextBefore(x, y) ==
  IF x = <<>> THEN y # <<>>
  ELSE IF y = <<>> THEN FALSE
  ELSE IF Head(x) = Head(y) THEN TextBefore(Tail(x), Tail(y))
  ELSE CharRank(Head(x)) < CharRank(Head(y))

RECURSIVE Sorted(_)
Sorted(names) ==
  IF names = {} THEN <<>>
  ELSE LET m == CHOOSE x \in names : \A y \in names \ {x} : TextBefore(x, y)
       IN <<m>> \o Sorted(names \ {m})

\* get_folder_names(): SELECT name FROM folders ORDER BY name
get_folder_names(D) == Sorted({r.name : r \in D.folders})

\* clear_folders(): DELETE FROM folders; the rows of files stay
clear_folders(D, o) ==
  IF ~o.dbOk THEN [d |-> D, ok |-> FALSE]
  ELSE [d |-> [D EXCEPT !.folders = {}], ok |-> TRUE]

\* get_file_by_name(folder_name, file_name): the row, or None
get_file_by_name(D, folder, fname) ==
  LET fid == get_folder_id(D, folder)
      rows == {r \in D.files : r.folder_id = fid /\ r.name = fname}
  IN IF fid = None \/ rows = {} THEN <<>> ELSE <<CHOOSE r \in rows : TRUE>>

\* DatabaseManager.delete_file(file_id): DELETE FROM files WHERE id = ?
Db_delete_file(D, o, id) ==
  IF ~o.dbOk THEN [d |-> D, ok |-> FALSE]
  ELSE [d |-> [D EXCEPT !.files = {r \in @ : r.id # id}], ok |-> TRUE]

\* the error texts of add_file
ErrFolderNotFound ==
  <<"F", "o", "l", "d", "e", "r", SP, "n", "o", "t", SP, "f", "o", "u", "n",
  "d", SP, "i", "n", SP, "d", "a", "t", "a", "b", "a", "s", "e">>
ErrAddFilePrefix ==
  <<"D", "a", "t", "a", "b", "a", "s", "e", SP, "e", "r", "r", "o", "r", SP,
  "w", "h", "e", "n", SP, "a", "d", "d", "i", "n", "g", SP, "f", "i", "l",
  "e", ":", SP>>

\* add_file with a plain INSERT on a table without the UNIQUE constraint
add_file_appending(D, o, fname, folder, local, remote, size) ==
  LET fid == get_folder_id(D, folder)
  IN IF fid = None THEN [d |-> D, ok |-> FALSE, err |-> Some(ErrFolderNotFound)]
     ELSE IF ~o.dbOk
     THEN [d |-> D, ok |-> FALSE, err |-> Some(ErrAddFilePrefix \o o.exc)]
     ELSE [d |-> [D EXCEPT
                    !.fileSeq = @ + 1,
                    !.files = @ \cup {[id |-> D.fileSeq + 1, name |-> fname,
                                       folder_id |-> fid, local_path |-> local,
                                       remote_path |-> remote, size |-> size]}],
           ok |-> TRUE, err |-> <<>>]

\* add_file without the test of the folder id
add_file_unchecked(D, o, fname, folder, local, remote, size) ==
  LET fid == get_folder_id(D, folder)
  IN IF ~o.dbOk
     THEN [d |-> D, ok |-> FALSE, err |-> Some(ErrAddFilePrefix \o o.exc)]
     ELSE [d |-> [D EXCEPT
                    !.fileSeq = @ + 1,
                    !.files = {r \in @ : ~(r.folder_id = fid /\ r.name = fname)}
                              \cup {[id |-> D.fileSeq + 1, name |-> fname,
                                     folder_id |-> fid, local_path |-> local,
                                     remote_path |-> remote, size |-> size]}],
           ok |-> TRUE, err |-> <<>>]

\* add_file(...): `if error or not folder_id: return False, "Folder not
\* found in database"`, then INSERT OR REPLACE on the unique (folder_id, name)
add_file(D, o, fname, folder, local, remote, size) ==
  LET fid == get_folder_id(D, folder)
  IN IF fid = None THEN [d |-> D, ok |-> FALSE, err |-> Some(ErrFolderNotFound)]
     ELSE IF ~o.dbOk
     THEN [d |-> D, ok |-> FALSE, err |-> Some(ErrAddFilePrefix \o o.exc)]
     ELSE [d |-> [D EXCEPT
                    !.fileSeq = @ + 1,
                    !.files = {r \in @ : ~(r.folder_id = fid /\ r.name = fname)}
                              \cup {[id |-> D.fileSeq + 1, name |-> fname,
                                     folder_id |-> fid, local_path |-> local,
                                     remote_path |-> remote, size |-> size]}],
           ok |-> TRUE, err |-> <<>>]

(* ------------------------------ actions -------------------------------- *)

\* Python truth of an optional text: None and "" are false
Truthy(e) == e # <<>> /\ e[1] # <<>>

Fits(S, D) ==
  /\ Len(S.conns) <= MaxHandles
  /\ Len(S.chans) <= MaxHandles
  /\ D.folderSeq <= MaxRows
  /\ D.fileSeq <= MaxRows

\* the session, the remote side and the store after an operation
Written(S, D) ==
  /\ Fits(S, D)
  /\ client' = S.client
  /\ sftp' = S.sftp
  /\ conns' = S.conns
  /\ chans' = S.chans
  /\ rDirs' = S.rDirs
  /\ rFiles' = S.rFiles
  /\ dbFolders' = D.folders
  /\ dbFiles' = D.files
  /\ folderSeq' = D.folderSeq
  /\ fileSeq' = D.fileSeq

Store(S, D) == Written(S, D) /\ UNCHANGED <<raw, parsed, app>>

\* an operation that leaves the selections and the file list of the views
Commit(S, D) ==
  Store(S, D) /\ UNCHANGED <<target_folder, current_folder, file_list>>

Pre ==
  [client |-> client, sftp |-> sftp, rDirs |-> rDirs, dbFolders |-> dbFolders,
   dbFiles |-> dbFiles]

Done(op, arg, ret, S) ==
  last' = [op |-> op, arg |-> arg, ret |-> ret, log |-> S.log, pre |-> Pre]

\* An operation ends at the first call that fails, so its oracle is the
\* all-succeeding one with at most one call failing; close() makes both of
\* its releases whatever the first did.
ConnO == {Smooth, [Smooth EXCEPT !.connectOk = FALSE]}
ChanO == ConnO \cup {[Smooth EXCEPT !.sftpOk = FALSE, !.exc = x] : x \in ExcTexts}
CloseO ==
  {[Smooth EXCEPT !.closeSftpOk = a, !.closeClientOk = b] :
     a \in BOOLEAN, b \in BOOLEAN}
ExecO ==
  ConnO \cup {[Smooth EXCEPT !.upper = TRUE]}
    \cup {[Smooth EXCEPT !.exec = e] : e \in {"fail", "silent"}}
    \cup {[Smooth EXCEPT !.exec = "raise", !.exc = x] : x \in ExcTexts}
UploadO ==
  ExecO \cup {[Smooth EXCEPT !.sftpOk = FALSE, !.exc = x] : x \in ExcTexts}
    \cup {[Smooth EXCEPT !.putOk = FALSE, !.exc = x] : x \in ExcTexts}
    \cup {[Smooth EXCEPT !.statOk = FALSE, !.exc = x] : x \in ExcTexts}

\* the store's writing statement raising, every remote call succeeding
DbFails == [Smooth EXCEPT !.dbOk = FALSE]

CreateO == ExecO \cup {DbFails}
UiUploadO == UploadO \cup {DbFails}

\* SSHClient.connect()
Connect ==
  \E o \in ConnO :
    LET r == connect(Cur, o)
    IN Commit(r.s, Db) /\ Done("connect", <<>>, [ok |-> r.ok, err |-> r.err], r.s)

\* SSHClient.open_sftp()
OpenSftp ==
  \E o \in ChanO :
    LET r == open_sftp(Cur, o)
    IN Commit(r.s, Db) /\ Done("open_sftp", <<>>, [ok |-> r.ok, err |-> r.err], r.s)

\* SSHClient.close(), as MainApplication._on_closing calls it
Close ==
  \E o \in CloseO :
    LET S == close(Cur, o)
    IN Commit(S, Db) /\ Done("close", <<>>, [ok |-> TRUE], S)

\* SSHClient.execute_command(command), for the commands the program builds
ExecuteCommand(names) ==
  \E o \in ExecO,
     cmd \in {MkdirCmd(PathJoin(Root, n)) : n \in names} \cup {DirsCmd(Root)}
               \cup {FilesCmd(PathJoin(Root, n)) : n \in names} :
    LET r == execute_command(Cur, o, cmd)
    IN /\ Commit(r.s, Db)
       /\ Done("execute_command", <<cmd>>,
               [out |-> r.out, err |-> r.err, status |-> r.status], r.s)

\* SSHClient.create_folder(folder_name)
CreateFolder(names) ==
  \E o \in ExecO, n \in names :
    LET r == create_folder(Cur, o, n)
    IN /\ Commit(r.s, Db)
       /\ Done("create_folder", <<n>>, [ok |-> r.ok, val |-> r.val], r.s)

\* SSHClient.list_folders()
ListFolders ==
  \E o \in ExecO :
    LET r == list_folders(Cur, o)
    IN /\ Commit(r.s, Db)
       /\ Done("list_folders", <<>>, [names |-> r.names, err |-> r.err], r.s)

\* SSHClient.list_files(folder_name)
ListFiles(names) ==
  \E o \in ExecO, n \in names :
    LET r == list_files(Cur, o, n)
    IN /\ Commit(r.s, Db)
       /\ Done("list_files", <<n>>, [names |-> r.names, err |-> r.err], r.s)

\* SSHClient.upload_file(local_file_path, folder_name)
UploadFile(locals, names) ==
  \E o \in UploadO, local \in locals, n \in names :
    LET r == upload_file(Cur, o, local, n)
    IN /\ Commit(r.s, Db)
       /\ Done("upload_file", <<local, n>>, [res |-> r.res, err |-> r.err], r.s)

\* a transfer operation: the connection, the channel or its one request fails
StatO == ChanO \cup {[Smooth EXCEPT !.statOk = FALSE, !.exc = x] : x \in ExcTexts}
GetO == ChanO \cup {[Smooth EXCEPT !.getOk = FALSE, !.exc = x] : x \in ExcTexts}
RemoveO == ChanO \cup {[Smooth EXCEPT !.removeOk = FALSE, !.exc = x] : x \in ExcTexts}

\* SSHClient.get_file_info(folder_name, file_name)
GetFileInfo(folders, fnames) ==
  \E o \in StatO, n \in folders, f \in fnames :
    LET r == get_file_info(Cur, o, n, f)
    IN /\ Commit(r.s, Db)
       /\ Done("get_file_info", <<n, f>>, [res |-> r.res, err |-> r.err], r.s)

\* SSHClient.download_file(folder_name, file_name, local_directory)
DownloadFile(folders, fnames) ==
  \E o \in GetO, n \in folders, f \in fnames :
    LET r == download_file(Cur, o, n, f, <<"d">>)
    IN /\ Commit(r.s, Db)
       /\ Done("download_file", <<n, f, <<"d">>>>, [res |-> r.res, err |-> r.err], r.s)

\* SSHClient.delete_file(folder_name, file_name)
DeleteFile(folders, fnames) ==
  \E o \in RemoveO, n \in folders, f \in fnames :
    LET r == delete_file(Cur, o, n, f)
    IN /\ Commit(r.s, Db)
       /\ Done("delete_file", <<n, f>>, [ok |-> r.ok, err |-> r.err], r.s)

\* the store's writing statement succeeds or raises
StoreO == {Smooth, DbFails}

\* DatabaseManager.add_folder(folder_name, full_path)
DbAddFolder(names) ==
  \E o \in StoreO, n \in names :
    LET a == add_folder(Db, o, n, PathJoin(Root, n))
    IN /\ Commit(Cur, a.d)
       /\ Done("add_folder", <<n>>, [ok |-> a.ok], Cur)

\* DatabaseManager.clear_folders()
DbClearFolders ==
  \E o \in StoreO :
    LET c == clear_folders(Db, o)
    IN /\ Commit(Cur, c.d)
       /\ Done("clear_folders", <<>>, [ok |-> c.ok], Cur)

\* DatabaseManager.add_file(file_name, folder_name, local_path, remote_path, size)
DbAddFile(names, fnames, locals) ==
  \E o \in StoreO, n \in names, f \in fnames, local \in locals :
    LET a == add_file(Db, o, f, n, local, RemotePath(n, f), LocalSize(local))
    IN /\ Commit(Cur, a.d)
       /\ Done("add_file", <<f, n, local, RemotePath(n, f), LocalSize(local)>>,
               [ok |-> a.ok, err |-> a.err], Cur)

\* DatabaseManager.delete_file(file_id), on an id the file table holds
DbDeleteFile ==
  \E o \in StoreO, r \in dbFiles :
    LET x == Db_delete_file(Db, o, r.id)
    IN /\ Commit(Cur, x.d)
       /\ Done("delete_file_record", <<r.id>>, [ok |-> x.ok], Cur)

\* the folder names the entry of the upload view may hold
TypedNames == {<<SP, "a">>, <<"a", "/">>, <<>>}

\* re.match(r'^[a-zA-Z0-9_-]+$', folder_name) on the names above
ValidName(n) == n # <<>> /\ \A i \in 1..Len(n) : n[i] \in {"a", "b", "_", "-"}

\* UploadView._create_folder past the validation: the folder is created
\* remotely and then recorded
ui_create_folder_add(r, a) ==
  [s |-> Logged(r.s, [ev |-> "db_add_folder", ok |-> a.ok]), d |-> a.d]

ui_create_folder(r, o, n) ==
  IF r.ok THEN ui_create_folder_add(r, add_folder(Db, o, n, r.val))
  ELSE [s |-> r.s, d |-> Db]

\* SearchableCombobox.set(value) after _load_folders: the value is chosen if
\* the store holds it
SelectorSet(chosen, D, n) ==
  IF \E r \in D.folders : r.name = n THEN <<n>> ELSE chosen

\* UploadView._create_folder
UiCreateFolder(typedNames) ==
  \E o \in CreateO, typed \in typedNames :
    IF ~ValidName(Strip(typed))
    THEN /\ Commit(Cur, Db)
         /\ Done("ui_create_folder", <<Strip(typed)>>, [rejected |-> TRUE], Cur)
    ELSE LET r == create_folder(Cur, o, Strip(typed))
             u == ui_create_folder(r, o, Strip(typed))
         IN /\ Store(u.s, u.d)
            /\ target_folder' =
                 IF r.ok THEN SelectorSet(target_folder, u.d, Strip(typed))
                 ELSE target_folder
            /\ UNCHANGED <<current_folder, file_list>>
            /\ Done("ui_create_folder", <<Strip(typed)>>,
                    [rejected |-> FALSE, ok |-> r.ok, val |-> r.val], u.s)

\* UploadView._upload_file past the call of upload_file: the record is
\* written when upload_file gave no error; subscripting a None result raises
\* and the handler catches it
\* the handler removing the uploaded file when the store refused the record
ui_upload_add_rollback(r, a) ==
  IF a.ok THEN [s |-> Logged(r.s, [ev |-> "db_add_file", ok |-> TRUE]), d |-> a.d]
  ELSE [s |-> SftpRemove(Logged(r.s, [ev |-> "db_add_file", ok |-> FALSE]),
                         Smooth, r.res[1].path).s,
        d |-> a.d]

ui_upload_add(r, a) ==
  [s |-> Logged(r.s, [ev |-> "db_add_file", ok |-> a.ok]), d |-> a.d]

ui_upload(r, o, local, n) ==
  IF Truthy(r.err) \/ r.res = <<>> THEN [s |-> r.s, d |-> Db]
  ELSE ui_upload_add(r, add_file(Db, o, Basename(local), n, local,
                                 r.res[1].path, r.res[1].size))

\* UploadView._upload_file
UiUpload(locals, names) ==
  \E o \in UiUploadO, local \in locals, n \in names :
    LET r == upload_file(Cur, o, local, n)
        u == ui_upload(r, o, local, n)
    IN /\ Commit(u.s, u.d)
       /\ Done("ui_upload", <<local, n>>, [res |-> r.res, err |-> r.err], u.s)

\* the selector of a view offers the folder names of the store
SelectTarget ==
  \E n \in Range(get_folder_names(Db)) :
    /\ target_folder' = <<n>>
    /\ Store(Cur, Db)
    /\ UNCHANGED <<current_folder, file_list>>
    /\ Done("select_target", <<n>>, [ok |-> TRUE], Cur)

\* `for folder_name in folders: if folder_name: add_folder(folder_name, path)`
RECURSIVE AddFolders(_, _, _)
AddFolders(D, o, names) ==
  IF names = <<>> THEN D
  ELSE AddFolders(
         IF Head(names) = <<>> THEN D
         ELSE add_folder(D, o, Head(names), PathJoin(Root, Head(names))).d,
         o, Tail(names))

\* a refresh past clear_folders; `stop` tells whether a failed clear ends it
refresh_clear(r, c, o, stop) ==
  [s |-> Logged(r.s, [ev |-> "db_clear", ok |-> c.ok]),
   d |-> IF ~c.ok /\ stop THEN Db ELSE AddFolders(c.d, o, r.names),
   done |-> c.ok \/ ~stop]

\* a refresh past list_folders: `if error: return`
refresh(r, o, stop) ==
  IF Truthy(r.err) THEN [s |-> r.s, d |-> Db, done |-> FALSE]
  ELSE refresh_clear(r, clear_folders(Db, o), o, stop)

RefreshO == CreateO

\* UploadView._refresh_folder_list: a failed clear_folders is logged and the
\* folders are added all the same
UploadRefresh ==
  \E o \in RefreshO :
    LET r == list_folders(Cur, o)
        u == refresh(r, o, FALSE)
    IN /\ Commit(u.s, u.d)
       /\ Done("upload_refresh", <<>>, [names |-> r.names, err |-> r.err], u.s)

\* BrowseView.refresh_folder_list: a failed clear_folders ends it; at its end
\* the file list is emptied
BrowseRefresh ==
  \E o \in RefreshO :
    LET r == list_folders(Cur, o)
        u == refresh(r, o, TRUE)
    IN /\ Store(u.s, u.d)
       /\ file_list' = IF u.done THEN <<>> ELSE file_list
       /\ UNCHANGED <<target_folder, current_folder>>
       /\ Done("browse_refresh", <<>>, [names |-> r.names, err |-> r.err], u.s)

\* MainApplication._init_connection past connect()
init_connection(c, o) ==
  IF ~c.ok THEN [s |-> c.s, d |-> Db, names |-> <<>>, err |-> c.err]
  ELSE LET r == list_folders(c.s, o)
           u == refresh(r, o, FALSE)
       IN [s |-> u.s, d |-> u.d, names |-> r.names, err |-> r.err]

\* MainApplication._init_connection, once, at startup
InitConnection ==
  /\ last.op = "init"
  /\ \E o \in RefreshO :
       LET u == init_connection(connect(Cur, o), o)
       IN /\ Commit(u.s, u.d)
          /\ Done("init_connection", <<>>, [names |-> u.names, err |-> u.err], u.s)

\* format_file_size(size_bytes)
format_file_size(n) ==
  IF n < 1024 THEN <<n, "B">> ELSE <<n \div 1024, "KB">>

Unknown == <<"Unknown">>

\* the row of the file list for a file the store holds
CachedRow(fname, rec) ==
  [name |-> fname, size |-> format_file_size(rec.size), date |-> "now"]

\* the row showing a size of 0 when get_file_info failed
StatRow_zero(fname, info) ==
  [name |-> fname,
   size |-> format_file_size(IF info.res # <<>> THEN info.res[1].size ELSE 0),
   date |-> IF info.res # <<>> THEN "mtime" ELSE "Unknown"]

\* the row for a file the store does not hold, from get_file_info
StatRow(fname, info) ==
  IF info.res # <<>>
  THEN [name |-> fname, size |-> format_file_size(info.res[1].size),
        date |-> "mtime"]
  ELSE [name |-> fname, size |-> Unknown, date |-> "Unknown"]

\* _load_files_in_folder, the loop of lines 211-236
RECURSIVE LoadRows(_, _, _, _, _, _)
RECURSIVE LoadRowStat(_, _, _, _, _, _)
LoadRows(S, D, o, folder, names, rows) ==
  IF names = <<>> THEN [s |-> S, rows |-> rows]
  ELSE IF get_file_by_name(D, folder, Head(names)) # <<>>
  THEN LoadRows(S, D, o, folder, Tail(names),
                Append(rows, CachedRow(Head(names),
                                       get_file_by_name(D, folder, Head(names))[1])))
  ELSE LoadRowStat(get_file_info(S, o, folder, Head(names)), D, o, folder, names,
                   rows)

LoadRowStat(info, D, o, folder, names, rows) ==
  LoadRows(info.s, D, o, folder, Tail(names),
           Append(rows, StatRow(Head(names), info)))

\* _load_files_in_folder(folder_name): the rows, or nothing shown anew when
\* list_files gave an error
load_files_in_folder_shown(x) == [s |-> x.s, shown |-> TRUE, rows |-> x.rows]

load_files_in_folder_rows(l, D, o, folder) ==
  IF Truthy(l.err) THEN [s |-> l.s, shown |-> FALSE, rows |-> <<>>]
  ELSE load_files_in_folder_shown(LoadRows(l.s, D, o, folder, l.names, <<>>))

load_files_in_folder(S, D, o, folder) ==
  load_files_in_folder_rows(list_files(S, o, folder), D, o, folder)

RowNames(rows) == [i \in 1..Len(rows) |-> rows[i].name]

\* the outcomes of a handler of the browse view: one call failing at most
LoadO ==
  {Smooth, [Smooth EXCEPT !.connectOk = FALSE], [Smooth EXCEPT !.exec = "fail"],
   [Smooth EXCEPT !.exec = "silent"], [Smooth EXCEPT !.exec = "raise"],
   [Smooth EXCEPT !.sftpOk = FALSE], [Smooth EXCEPT !.statOk = FALSE]}

\* the listing writing a record for the first file it had to stat
LoadFiles_recording ==
  \E o \in LoadO,
     n \in Range(get_folder_names(Db)) \cup Range(current_folder) :
    LET u == load_files_in_folder(Cur, Db, o, n)
        stat == {i \in 1..Len(u.rows) : u.rows[i].date = "mtime"}
    IN /\ Store(u.s,
                IF stat = {} THEN Db
                ELSE add_file(Db, o, u.rows[CHOOSE i \in stat : TRUE].name, n,
                              NoText, RemotePath(n, u.rows[CHOOSE i \in stat : TRUE].name),
                              0).d)
       /\ current_folder' = <<n>>
       /\ file_list' = IF u.shown THEN RowNames(u.rows) ELSE file_list
       /\ UNCHANGED target_folder
       /\ Done("load_files", <<n>>, [shown |-> u.shown, rows |-> u.rows], u.s)

\* BrowseView._on_folder_selected / _refresh_files: the folder is chosen in
\* the selector (or stays) and its files are loaded
LoadFiles ==
  \E o \in LoadO,
     n \in Range(get_folder_names(Db)) \cup Range(current_folder) :
    LET u == load_files_in_folder(Cur, Db, o, n)
    IN /\ Store(u.s, Db)
       /\ current_folder' = <<n>>
       /\ file_list' = IF u.shown THEN RowNames(u.rows) ELSE file_list
       /\ UNCHANGED target_folder
       /\ Done("load_files", <<n>>, [shown |-> u.shown, rows |-> u.rows], u.s)

\* the directory of the previews and the directories the user downloads to
TempDir == <<"t">>
DownloadDirs == {<<"d">>}

\* the record a fetch writes when get_file_info gave the size: `if file_info:`
ui_fetch_add(info, a) ==
  [s |-> Logged(info.s, [ev |-> "db_add_file", ok |-> a.ok]), d |-> a.d]

ui_fetch_record(info, o, folder, fname, local) ==
  IF info.res = <<>> THEN [s |-> info.s, d |-> Db]
  ELSE ui_fetch_add(info, add_file(Db, o, fname, folder, local,
                                   RemotePath(folder, fname), info.res[1].size))

\* _download_selected_file past download_file: `if error: return`, then
\* result["path"], which raises on a None result and ends the handler
ui_download(r, o, folder, fname) ==
  IF Truthy(r.err) \/ r.res = <<>> THEN [s |-> r.s, d |-> Db]
  ELSE IF get_file_by_name(Db, folder, fname) # <<>> THEN [s |-> r.s, d |-> Db]
  ELSE ui_fetch_record(get_file_info(r.s, o, folder, fname), o, folder, fname,
                       r.res[1].path)

\* _preview_selected_file past download_file: `if error: return`; the result
\* is not read and the record holds the path in the temp directory
ui_preview(r, o, folder, fname) ==
  IF Truthy(r.err) THEN [s |-> r.s, d |-> Db]
  ELSE IF get_file_by_name(Db, folder, fname) # <<>> THEN [s |-> r.s, d |-> Db]
  ELSE ui_fetch_record(get_file_info(r.s, o, folder, fname), o, folder, fname,
                       LocalJoin(TempDir, fname))

FetchO ==
  {Smooth, [Smooth EXCEPT !.connectOk = FALSE], [Smooth EXCEPT !.sftpOk = FALSE],
   [Smooth EXCEPT !.statOk = FALSE], DbFails}
    \cup {[Smooth EXCEPT !.getOk = FALSE, !.exc = x] : x \in ExcTexts}
\* the local copy the record names may be gone
PreviewO ==
  FetchO \cup {[Smooth EXCEPT !.localThere = FALSE]}
    \cup {[Smooth EXCEPT !.localThere = FALSE, !.getOk = FALSE, !.exc = x] :
            x \in ExcTexts}
DeleteO ==
  {Smooth, [Smooth EXCEPT !.connectOk = FALSE], [Smooth EXCEPT !.sftpOk = FALSE],
   [Smooth EXCEPT !.removeOk = FALSE], DbFails, [Smooth EXCEPT !.exec = "fail"]}

\* BrowseView._download_selected_file on a row of the file list
Download ==
  /\ current_folder # <<>>
  /\ \E o \in FetchO, f \in Range(file_list), dir \in DownloadDirs :
       LET r == download_file(Cur, o, current_folder[1], f, dir)
           u == ui_download(r, o, current_folder[1], f)
       IN /\ Commit(u.s, u.d)
          /\ Done("ui_download", <<current_folder[1], f, dir>>,
                  [res |-> r.res, err |-> r.err], u.s)

\* BrowseView._preview_selected_file on a row of the file list: the local
\* copy the record names is shown when it is there, a fetched one otherwise
Preview ==
  /\ current_folder # <<>>
  /\ \E o \in PreviewO, f \in Range(file_list) :
       IF get_file_by_name(Db, current_folder[1], f) # <<>> /\ o.localThere
       THEN /\ Commit(Cur, Db)
            /\ Done("ui_preview", <<current_folder[1], f, TempDir>>,
                    [res |-> <<>>, err |-> <<>>], Cur)
       ELSE LET r == download_file(Cur, o, current_folder[1], f, TempDir)
                u == ui_preview(r, o, current_folder[1], f)
            IN /\ Commit(u.s, u.d)
               /\ Done("ui_preview", <<current_folder[1], f, TempDir>>,
                       [res |-> r.res, err |-> r.err], u.s)

\* _delete_selected_file past delete_file, lines 416-420: the result of the
\* store's delete_file is not read
ui_delete_row(r, x) ==
  [s |-> Logged(r.s, [ev |-> "db_delete_file", ok |-> x.ok]), d |-> x.d]

ui_delete_record(r, o, folder, fname) ==
  IF get_file_by_name(Db, folder, fname) = <<>> THEN [s |-> r.s, d |-> Db]
  ELSE ui_delete_row(r, Db_delete_file(Db, o,
                                       get_file_by_name(Db, folder, fname)[1].id))

\* line 423: the file list is loaded again
ui_delete_reload(u, l) ==
  [s |-> l.s, d |-> u.d, shown |-> l.shown, rows |-> l.rows]

ui_delete_reloading(u, o, folder) ==
  ui_delete_reload(u, load_files_in_folder(u.s, u.d, o, folder))

\* the handler going on to the store after a failed remote delete
ui_delete_anyway(r, o, folder, fname) ==
  ui_delete_reloading(ui_delete_record(r, o, folder, fname), o, folder)

\* _delete_selected_file past the confirmation
ui_delete(r, o, folder, fname) ==
  IF ~r.ok THEN [s |-> r.s, d |-> Db, shown |-> FALSE, rows |-> <<>>]
  ELSE ui_delete_reloading(ui_delete_record(r, o, folder, fname), o, folder)

\* BrowseView._delete_selected_file on a row of the file list
Delete ==
  /\ current_folder # <<>>
  /\ \E o \in DeleteO, f \in Range(file_list) :
       LET r == delete_file(Cur, o, current_folder[1], f)
           u == ui_delete(r, o, current_folder[1], f)
       IN /\ Store(u.s, u.d)
          /\ file_list' = IF u.shown THEN RowNames(u.rows) ELSE file_list
          /\ UNCHANGED <<target_folder, current_folder>>
          /\ Done("ui_delete", <<current_folder[1], f>>,
                  [ok |-> r.ok, err |-> r.err, shown |-> u.shown, rows |-> u.rows],
                  u.s)

(* --------------------------- specifications ---------------------------- *)

(* ------------------------------ config.py ------------------------------ *)

\* int(os.getenv("SSH_PORT", 22)): the default of the port
DefaultPort == 22

DigitValue ==
  [c \in {"0", "1", "2", "3", "4", "5", "6", "7", "8", "9"} |->
     CASE c = "0" -> 0 [] c = "1" -> 1 [] c = "2" -> 2 [] c = "3" -> 3
       [] c = "4" -> 4 [] c = "5" -> 5 [] c = "6" -> 6 [] c = "7" -> 7
       [] c = "8" -> 8 [] c = "9" -> 9]

RECURSIVE DigitsValue(_)
DigitsValue(t) ==
  IF t = <<>> THEN 0
  ELSE 10 * DigitsValue(SubSeq(t, 1, Len(t) - 1)) + DigitValue[t[Len(t)]]

\* int(text) on the port texts below: a ValueError unless the text is digits
IsNumber(t) == t # <<>> /\ \A i \in 1..Len(t) : t[i] \in DOMAIN DigitValue

\* SSH_PORT = int(os.getenv("SSH_PORT", 22)), evaluated when config is imported
PortOf(env) ==
  IF env.SSH_PORT = <<>> THEN [ok |-> TRUE, port |-> DefaultPort]
  ELSE IF IsNumber(env.SSH_PORT[1])
       THEN [ok |-> TRUE, port |-> DigitsValue(env.SSH_PORT[1])]
       ELSE [ok |-> FALSE, port |-> 0]

\* the variables validate_config requires, in the order of required_vars
RequiredVars == <<"SSH_HOST", "SSH_USER", "SSH_PASSWORD", "REMOTE_PATH">>

\* validate_config without SSH_PASSWORD among the required variables
validate_config_no_password(env) ==
  LET missing == SelectSeq(<<"SSH_HOST", "SSH_USER", "REMOTE_PATH">>,
                           LAMBDA v : ~Truthy(env[v]))
  IN [ok |-> missing = <<>>, missing |-> missing]

\* validate_config(): `missing = [var for var, value in ... if not value]`
validate_config(env) ==
  LET missing == SelectSeq(RequiredVars, LAMBDA v : ~Truthy(env[v]))
  IN [ok |-> missing = <<>>, missing |-> missing]

\* os.getenv of a variable: None, "" or a text
EnvTexts == {<<>>, <<NoText>>, <<<<"v">>>>}
PortTexts == {<<>>, <<NoText>>, <<<<"2", "2">>>>, <<<<"x">>>>}

Envs ==
  [SSH_HOST : EnvTexts, SSH_PORT : PortTexts, SSH_USER : EnvTexts,
   SSH_PASSWORD : EnvTexts, REMOTE_PATH : EnvTexts]

FullEnv ==
  [SSH_HOST |-> <<<<"v">>>>, SSH_PORT |-> <<>>, SSH_USER |-> <<<<"v">>>>,
   SSH_PASSWORD |-> <<<<"v">>>>, REMOTE_PATH |-> <<<<"v">>>>]

\* MainApplication after __init__ on a complete configuration
Constructed ==
  [phase |-> "running", env |-> FullEnv, db |-> TRUE, ssh |-> TRUE,
   port |-> DefaultPort]

Start ==
  [op |-> "init", arg |-> <<>>, ret |-> [ok |-> TRUE], log |-> <<>>,
   pre |-> [client |-> None, sftp |-> None, rDirs |-> <<>>, dbFolders |-> {},
            dbFiles |-> {}]]

\* The state after SSHClient.__init__ and DatabaseManager.__init__ on a new
\* database file, the remote root holding `dirs` and `files`.
Fresh(dirs, files) ==
  /\ client = None
  /\ sftp = None
  /\ conns = <<>>
  /\ chans = <<>>
  /\ rDirs = dirs
  /\ rFiles = files
  /\ dbFolders = {}
  /\ dbFiles = {}
  /\ folderSeq = 0
  /\ fileSeq = 0
  /\ target_folder = <<>>
  /\ current_folder = <<>>
  /\ file_list = <<>>
  /\ last = Start
  /\ parsed = <<>>

\* ... with the application constructed on a complete configuration
InitWith(dirs, files) == Fresh(dirs, files) /\ app = Constructed

Init == InitWith(<<>>, <<>>) /\ raw = <<>>

\* The upload view driving the session manager and the store, on one folder.
Next ==
  \/ UiCreateFolder(TypedNames)
  \/ UiUpload(LocalPaths, OneName)

Spec == Init /\ [][Next]_vars

\* The session manager alone: the lifecycle operations, a command and a
\* transfer, on one folder and one file.
SessionNext ==
  \/ Connect
  \/ OpenSftp
  \/ Close
  \/ ExecuteCommand({})
  \/ UploadFile(OneLocal, OneName)

SessionSpec == Init /\ [][SessionNext]_vars

\* The upload view with its selector: folders are created, chosen, refreshed
\* and uploaded to.
TargetNames == Range(target_folder)

UploadViewNext ==
  \/ UiCreateFolder(OneName)
  \/ SelectTarget
  \/ UploadRefresh
  \/ UiUpload(OneLocal, TargetNames)

UploadViewSpec == Init /\ [][UploadViewNext]_vars

\* The commands of the session manager against a remote root that other
\* clients may have filled.
FilledDirs == <<PathJoin(Root, <<"b">>)>>
FilledFiles ==
  <<[path |-> PathJoin(PathJoin(Root, <<"b">>), <<"g">>), size |-> 2],
    [path |-> PathJoin(PathJoin(Root, <<"b">>), <<"f">>), size |-> 1]>>

CommandInit == (InitWith(<<>>, <<>>) \/ InitWith(FilledDirs, FilledFiles)) /\ raw = <<>>

CommandNext ==
  \/ ExecuteCommand(FolderNames)
  \/ CreateFolder(FolderNames)
  \/ ListFolders
  \/ ListFiles(FolderNames)
  \/ Close

CommandSpec == CommandInit /\ [][CommandNext]_vars

\* The session manager as the views use it: connect, the commands, the four
\* transfer operations and close, on a remote folder that holds files.
RemoteFolder == {<<"b">>}
RemoteFile == {<<"f">>}

TransferInit == InitWith(FilledDirs, FilledFiles) /\ raw = <<>>

TransferNext ==
  \/ Connect
  \/ Close
  \/ ListFolders
  \/ ListFiles(RemoteFolder)
  \/ CreateFolder(RemoteFolder)
  \/ GetFileInfo(RemoteFolder, RemoteFile)
  \/ DownloadFile(RemoteFolder, RemoteFile)
  \/ DeleteFile(RemoteFolder, RemoteFile)
  \/ UploadFile(OneLocal, RemoteFolder)

TransferSpec == TransferInit /\ [][TransferNext]_vars

\* The metadata store alone: folders are added and cleared, file records
\* added and deleted, for two folders and one file name with two local copies.
StoreNext ==
  \/ DbAddFolder(FolderNames)
  \/ DbClearFolders
  \/ DbAddFile(FolderNames, RemoteFile, LocalPaths)
  \/ DbDeleteFile

StoreSpec == Init /\ [][StoreNext]_vars

\* The start of the application on every environment: config.py is
\* imported, MainApplication.__init__ validates it, creates the store and the
\* session manager and runs _init_connection.
ConfigInit ==
  /\ Fresh(FilledDirs, FilledFiles)
  /\ raw = <<>>
  /\ app \in {[phase |-> "unstarted", env |-> e, db |-> FALSE, ssh |-> FALSE,
               port |-> 0] : e \in Envs}

Unmoved ==
  UNCHANGED <<client, sftp, conns, chans, rDirs, rFiles, dbFolders, dbFiles,
              folderSeq, fileSeq, target_folder, current_folder, file_list,
              raw, parsed>>

\* `python main.py`: the import of config, then MainApplication.__init__
Startup ==
  /\ app.phase = "unstarted"
  /\ IF ~PortOf(app.env).ok
     THEN /\ app' = [app EXCEPT !.phase = "import_error"]
          /\ Unmoved
          /\ Done("startup", <<>>, [ok |-> FALSE, missing |-> <<>>], Cur)
     ELSE IF ~validate_config(app.env).ok
     THEN /\ app' = [app EXCEPT !.phase = "blocked", !.port = PortOf(app.env).port]
          /\ Unmoved
          /\ Done("startup", <<>>,
                  [ok |-> FALSE, missing |-> validate_config(app.env).missing], Cur)
     ELSE \E o \in RefreshO :
            LET u == init_connection(connect(Cur, o), o)
            IN /\ app' = [app EXCEPT !.phase = "running", !.db = TRUE,
                                     !.ssh = TRUE, !.port = PortOf(app.env).port]
               /\ Written(u.s, u.d)
               /\ UNCHANGED <<target_folder, current_folder, file_list, raw, parsed>>
               /\ Done("startup", <<>>, [ok |-> TRUE, missing |-> <<>>], u.s)

ConfigSpec == ConfigInit /\ [][Startup]_vars

\* The browse view on a remote root that holds a folder with two files.
BrowseInit == InitWith(FilledDirs, FilledFiles) /\ raw = <<>>

\* _init_connection runs before any handler of a view
Started == last.op # "init"

\* Listing, downloading and deleting.
BrowseNext ==
  \/ InitConnection
  \/ Started /\ LoadFiles
  \/ Started /\ Download
  \/ Started /\ Delete

BrowseSpec == BrowseInit /\ [][BrowseNext]_vars

\* Listing, previewing and downloading.
FetchNext ==
  \/ InitConnection
  \/ Started /\ LoadFiles
  \/ Started /\ Preview
  \/ Started /\ Download

FetchSpec == BrowseInit /\ [][FetchNext]_vars

\* The three refreshes of the folder table, folders being created meanwhile.
RefreshNext ==
  \/ InitConnection
  \/ UploadRefresh
  \/ BrowseRefresh
  \/ UiCreateFolder(FolderNames)

RefreshSpec == Init /\ [][RefreshNext]_vars

\* The listing parser on every raw text a listing command may print.
RawAlphabet == {"a", SP, CR, LF}

RECURSIVE TextsOfLen(_)
TextsOfLen(n) ==
  IF n = 0 THEN {<<>>}
  ELSE {Append(t, c) : t \in TextsOfLen(n - 1), c \in RawAlphabet}

ExampleRaw ==
  <<"a", "l", "p", "h", "a", CR, LF, "b", "e", "t", "a", CR, LF, CR, LF,
    "g", "a", "m", "m", "a">>

RawTexts == UNION {TextsOfLen(n) : n \in 0..MaxRawLen} \cup {ExampleRaw}

ParserInit == InitWith(<<>>, <<>>) /\ raw \in RawTexts

\* list_folders on a listing command that printed `raw` and exited with 0
Parse ==
  /\ parsed = <<>>
  /\ parsed' =
       Some(Listed(execute_command_ret(
              [s |-> Cur,
               r |-> [raised |-> FALSE, stdout |-> raw, stderr |-> <<>>,
                      status |-> 0]], "dirs")).names)
  /\ UNCHANGED <<client, sftp, conns, chans, rDirs, rFiles, dbFolders, dbFiles,
                 folderSeq, fileSeq, target_folder, current_folder, file_list, app,
                 last, raw>>

ParserNext == Parse

ParserSpec == ParserInit /\ [][ParserNext]_vars

(* ------------------------------- claims -------------------------------- *)

Evs(log) == [i \in 1..Len(log) |-> log[i].ev]
Has(log, e) == \E i \in 1..Len(log) : log[i].ev = e
Failed(log, e) == \E i \in 1..Len(log) : log[i].ev = e /\ ~log[i].ok

\* C1: in every reachable state the transfer channel handle (sftp) is set
\* only if the connection handle (client) is set.
C1_ChannelNeedsConnection == sftp # None => client # None

\* connect() called again, and failing, while a channel is open
C1_Witness == sftp # None /\ last.op = "connect" /\ ~last.ret.ok

\* C2: close() releases the channel, then the connection, each release made
\* whether or not the other raised, and leaves both handles None.
C2_CloseReleasesBoth ==
  last.op = "close" =>
    /\ client = None
    /\ sftp = None
    /\ Evs(last.log) =
         (IF last.pre.sftp # None THEN <<"close_sftp">> ELSE <<>>)
           \o (IF last.pre.client # None THEN <<"close_client">> ELSE <<>>)

\* close() with both handles set and both releases raising
C2_Witness ==
  /\ last.op = "close"
  /\ last.pre.sftp # None
  /\ last.pre.client # None
  /\ Failed(last.log, "close_sftp")
  /\ Failed(last.log, "close_client")

\* C3 as stated: open_sftp() with a channel already open opens no channel
\* and leaves the handle as it was.
C3_OpenSftpIsNoOp ==
  (last.op = "open_sftp" /\ last.pre.sftp # None) =>
    (sftp = last.pre.sftp /\ ~Has(last.log, "open_sftp"))

\* C3 as amended: a transfer operation invoked with a channel open opens no
\* channel and leaves the handle as it was, while a successful open_sftp()
\* always opens a channel and installs a new handle.
C3_TransfersReuseChannel ==
  /\ (last.op = "upload_file" /\ last.pre.sftp # None) =>
       (sftp = last.pre.sftp /\ ~Has(last.log, "open_sftp"))
  /\ (last.op = "open_sftp" /\ last.ret.ok) =>
       (sftp \notin {None, last.pre.sftp} /\ Has(last.log, "open_sftp"))

\* an upload that found the channel open and used it
C3_Witness ==
  last.op = "upload_file" /\ last.pre.sftp # None /\ Has(last.log, "put")

\* C4: as long as no connect() has succeeded, the connection handle is None.
NoConnectSucceeded == \A i \in DOMAIN conns : conns[i] = "new"

C4_NoneUntilConnected == NoConnectSucceeded => client = None

\* the call of exec_command an operation made
ExecEv(log) == log[CHOOSE i \in 1..Len(log) : log[i].ev = "exec"]

\* root/name, written out
RootSlash(n) == Root \o <<"/">> \o n

\* the "already exists" marker in any spelling of upper and lower case
SameLetter(c, d) == c = d \/ (c \in DOMAIN UpperToLower /\ UpperToLower[c] = d)
HasMarkerAnyCase(t) ==
  \E i \in 0..(Len(t) - Len(Marker)) :
    \A k \in 1..Len(Marker) : SameLetter(t[i + k], Marker[k])

\* C5: execute_command returns the captured (stdout, stderr, exit status)
\* when the command ran and (None, message, -1) when the connect or the
\* transport failed; after a failed connect no command is executed.
C5_ExecuteCommandResult ==
  last.op = "execute_command" =>
    /\ Failed(last.log, "connect") => ~Has(last.log, "exec")
    /\ IF Has(last.log, "exec") /\ ExecEv(last.log).ok
       THEN /\ last.ret.out = Some(Strip(ExecEv(last.log).r.stdout))
            /\ last.ret.err = Some(Strip(ExecEv(last.log).r.stderr))
            /\ last.ret.status = ExecEv(last.log).r.status
       ELSE /\ last.ret.out = <<>>
            /\ last.ret.status = -1
            /\ last.ret.err =
                 Some(IF Has(last.log, "exec") THEN ExecEv(last.log).r.msg
                      ELSE SshPrefix \o ErrConnect)

\* a transport failure on an established session
C5_Witness ==
  /\ last.op = "execute_command"
  /\ Failed(last.log, "exec")
  /\ client # None
  /\ conns[client] = "open"

\* what mkdir gave create_folder: exit status and error text (-1 and the
\* exception's text on a transport failure)
MkdirStatus(log) == IF ExecEv(log).ok THEN ExecEv(log).r.status ELSE -1
MkdirText(log) ==
  IF ExecEv(log).ok THEN Strip(ExecEv(log).r.stderr) ELSE ExecEv(log).r.msg

\* C6: create_folder returns (True, root/name) exactly when mkdir exited
\* with 0 or its error text holds "already exists" in any case, and
\* (False, the error text) otherwise.
C6_CreateFolderResult ==
  last.op = "create_folder" =>
    IF ~Has(last.log, "exec")
    THEN ~last.ret.ok /\ last.ret.val = SshPrefix \o ErrConnect
    ELSE /\ last.ret.ok <=>
              (MkdirStatus(last.log) = 0 \/ HasMarkerAnyCase(MkdirText(last.log)))
         /\ last.ret.ok => last.ret.val = RootSlash(last.arg[1])
         /\ ~last.ret.ok => last.ret.val = MkdirText(last.log)

\* success through the marker in upper case, exit status 1
C6_Witness ==
  /\ last.op = "create_folder"
  /\ last.ret.ok
  /\ Has(last.log, "exec")
  /\ MkdirStatus(last.log) = 1
  /\ MkdirText(last.log) = Strip(ErrExistsUpper)

\* C7: create_folder(n) on a directory that is there (as after an earlier
\* success) and a remote that answers returns success and the same path,
\* and leaves the remote directories as they were.
C7_CreateFolderIdempotent ==
  (/\ last.op = "create_folder"
   /\ RootSlash(last.arg[1]) \in Range(last.pre.rDirs)
   /\ Has(last.log, "exec")
   /\ ExecEv(last.log).ok) =>
    /\ last.ret.ok
    /\ last.ret.val = RootSlash(last.arg[1])
    /\ rDirs = last.pre.rDirs

\* a second create_folder of a folder this session made
C7_Witness ==
  /\ last.op = "create_folder"
  /\ RootSlash(last.arg[1]) \in Range(last.pre.rDirs)
  /\ RootSlash(last.arg[1]) \notin Range(FilledDirs)
  /\ last.ret.ok
  /\ MkdirStatus(last.log) = 1

Basenames(paths) == [i \in 1..Len(paths) |-> Basename(paths[i])]
InDir(dir, p) == Dirname(p) = dir
ListedDir == IF last.op = "list_folders" THEN Root ELSE RootSlash(last.arg[1])
Enumerated ==
  IF last.op = "list_folders"
  THEN Basenames(SelectSeq(rDirs, LAMBDA p : InDir(ListedDir, p)))
  ELSE Basenames(SelectSeq(FilePaths(rFiles), LAMBDA p : InDir(ListedDir, p)))

\* C8: list_folders and list_files return the names in the remote's
\* enumeration order and no error when the listing command exits with 0,
\* and the empty sequence with the error text otherwise.
C8_ListingResult ==
  (last.op \in {"list_folders", "list_files"} /\ Has(last.log, "exec")) =>
    IF ExecEv(last.log).ok /\ ExecEv(last.log).r.status = 0
    THEN last.ret.err = <<>> /\ last.ret.names = Enumerated
    ELSE last.ret.names = <<>> /\ last.ret.err = Some(MkdirText(last.log))

\* two folders listed in an order that is not the sorted one
C8_Witness ==
  last.op = "list_folders" /\ last.ret.names = << <<"b">>, <<"a">> >>

RECURSIVE JoinCRLF(_)
JoinCRLF(names) ==
  IF names = <<>> THEN <<>>
  ELSE IF Len(names) = 1 THEN names[1]
  ELSE names[1] \o CRLF \o JoinCRLF(Tail(names))

\* a text with its empty lines removed
RECURSIVE Collapse(_)
Collapse(t) ==
  IF Len(t) < 4 THEN t
  ELSE IF SubSeq(t, 1, 4) = CRLF \o CRLF THEN Collapse(SubSeq(t, 3, Len(t)))
  ELSE <<Head(t)>> \o Collapse(Tail(t))

ExampleNames ==
  << <<"a", "l", "p", "h", "a">>, <<"b", "e", "t", "a">>,
     <<"g", "a", "m", "m", "a">> >>

\* C9 as stated: every returned name is non-empty and has no leading or
\* trailing whitespace.
C9_NamesTrimmed ==
  parsed # <<>> =>
    \A i \in 1..Len(parsed[1]) :
      parsed[1][i] # <<>> /\ Strip(parsed[1][i]) = parsed[1][i]

\* C9 as amended: the names are the non-empty pieces between the "\r\n" of
\* the text trimmed as a whole, in order; no name is empty or holds a
\* separator, the empty text gives no name and the example its three.
C9_PiecesOfTrimmedText ==
  parsed # <<>> =>
    /\ \A i \in 1..Len(parsed[1]) :
         parsed[1][i] # <<>> /\ ~Contains(parsed[1][i], CRLF)
    /\ JoinCRLF(parsed[1]) = Collapse(Strip(raw))
    /\ raw = <<>> => parsed[1] = <<>>
    /\ raw = ExampleRaw => parsed[1] = ExampleNames

\* the example, its empty line dropped
C9_Witness == raw = ExampleRaw /\ parsed = Some(ExampleNames)

Rank(e) ==
  CASE e = "connect" -> 1 [] e = "exec" -> 2 [] e = "open_sftp" -> 3
    [] e = "put" -> 4 [] e = "stat" -> 5 [] e = "db_add_file" -> 6

FolderFailed(log) ==
  Has(log, "exec") /\ ~(MkdirStatus(log) = 0 \/ HasMarkerAnyCase(MkdirText(log)))

\* C10: an upload makes its calls in the order connect, mkdir, open channel,
\* put, stat, store; when the connect, the folder creation or the opening of
\* the channel fails, upload_file returns no result and an error text, no put
\* is issued and the table of files stays as it was.
C10_UploadOrderAndAbort ==
  last.op = "ui_upload" =>
    /\ \A i, j \in 1..Len(last.log) :
         i < j => Rank(last.log[i].ev) < Rank(last.log[j].ev)
    /\ Has(last.log, "put") => Has(last.log, "exec") /\ sftp # None
    /\ Has(last.log, "stat") => Has(last.log, "put")
    /\ (\/ Failed(last.log, "connect")
        \/ FolderFailed(last.log)
        \/ Failed(last.log, "open_sftp")) =>
         /\ last.ret.res = <<>>
         /\ last.ret.err # <<>>
         /\ ~Has(last.log, "put")
         /\ ~Has(last.log, "db_add_file")
         /\ dbFiles = last.pre.dbFiles

\* the channel refused for an upload into a folder the store knows
C10_Witness ==
  /\ last.op = "ui_upload"
  /\ Failed(last.log, "open_sftp")
  /\ get_folder_id(Db, last.arg[2]) # None

\* the handlers of the views that pair a remote call with the store
Orchestrated ==
  {"ui_create_folder", "ui_upload", "ui_delete", "ui_download", "ui_preview",
   "upload_refresh", "browse_refresh", "init_connection"}

StoreEvents ==
  {"db_add_folder", "db_add_file", "db_delete_file", "db_clear"}
RemoteEvents == {"connect", "exec", "open_sftp", "put", "stat", "get", "remove"}

\* whether the remote call of the last handler reported success to it
RemoteReportedSuccess ==
  CASE last.op = "ui_create_folder" -> ~last.ret.rejected /\ last.ret.ok
    [] last.op = "ui_delete" -> last.ret.ok
    [] last.op \in {"ui_upload", "ui_download", "ui_preview"} -> last.ret.res # <<>>
    [] OTHER -> last.ret.err = <<>>

\* the first statement on the store and the main remote call of a handler
FirstStoreEvent(log) ==
  CHOOSE i \in 1..Len(log) :
    log[i].ev \in StoreEvents /\ \A j \in 1..(i - 1) : log[j].ev \notin StoreEvents
MainRemoteEvents == {"exec", "put", "get", "remove"}

\* C11 as stated: a handler touches the store only after its remote call,
\* and only if that call reported success.
C11_StoreOnlyAfterRemoteSuccess ==
  (last.op \in Orchestrated /\ \E i \in 1..Len(last.log) : last.log[i].ev \in StoreEvents) =>
    /\ RemoteReportedSuccess
    /\ \E j \in 1..(FirstStoreEvent(last.log) - 1) :
         last.log[j].ev \in MainRemoteEvents

\* the store as it was before the last handler
PreDb == [Db EXCEPT !.folders = last.pre.dbFolders, !.files = last.pre.dbFiles]

\* C12: when the remote delete of (folder, file) fails, the handler leaves
\* the store as it was: no statement is made on it and the record of the
\* file, if there was one, is still retrievable with the same contents.
C12_FailedDeleteKeepsStore ==
  (last.op = "ui_delete" /\ ~last.ret.ok) =>
    /\ dbFiles = last.pre.dbFiles
    /\ dbFolders = last.pre.dbFolders
    /\ \A i \in 1..Len(last.log) : last.log[i].ev \notin StoreEvents
    /\ get_file_by_name(Db, last.arg[1], last.arg[2]) =
         get_file_by_name(PreDb, last.arg[1], last.arg[2])

\* sftp.remove raised for a file the store holds a record of
C12_Witness ==
  /\ last.op = "ui_delete"
  /\ Failed(last.log, "remove")
  /\ get_file_by_name(Db, last.arg[1], last.arg[2]) # <<>>

\* the names list_files(folder) gives on the remote files as they are
RemoteNames(folder) ==
  Basenames(SelectSeq(FilePaths(rFiles),
                      LAMBDA p : InDir(PathJoin(Root, folder), p)))

\* C13 as stated: after a delete whose remote delete_file succeeded, the
\* listing of the folder does not hold the name and the store has no record
\* retrievable for (folder, name).
C13_DeletedRemotelyAndInStore ==
  (last.op = "ui_delete" /\ last.ret.ok) =>
    /\ last.arg[2] \notin Range(RemoteNames(last.arg[1]))
    /\ last.ret.shown => last.arg[2] \notin Range(RowNames(last.ret.rows))
    /\ get_file_by_name(Db, last.arg[1], last.arg[2]) = <<>>

\* C14 as stated: after every upload whose upload_file succeeded the store
\* holds a record for (folder, basename(local path)) with the source path,
\* the remote path upload_file returned and the size of the remote stat.
C14_UploadIsRecorded ==
  (last.op = "ui_upload" /\ last.ret.res # <<>>) =>
    /\ get_file_by_name(Db, last.arg[2], Basename(last.arg[1])) # <<>>
    /\ get_file_by_name(Db, last.arg[2], Basename(last.arg[1]))[1].local_path =
         last.arg[1]
    /\ get_file_by_name(Db, last.arg[2], Basename(last.arg[1]))[1].remote_path =
         last.ret.res[1].path
    /\ get_file_by_name(Db, last.arg[2], Basename(last.arg[1]))[1].size =
         last.ret.res[1].size

Refreshes == {"upload_refresh", "browse_refresh", "init_connection"}

\* a refresh that ran to its end on a listing list_folders gave without error
RefreshCompleted ==
  /\ last.op \in Refreshes
  /\ last.ret.err = <<>>
  /\ last.op = "browse_refresh" => ~Failed(last.log, "db_clear")

\* C15 as stated: after a refresh that completes on a successful remote
\* listing, get_folder_names() holds exactly the names list_folders gave,
\* from each of the three entry points.
C15_RefreshReplaces ==
  RefreshCompleted => Range(get_folder_names(Db)) = Range(last.ret.names)

\* the rows of a listing for the files the store has no record of, and the
\* calls get_file_info ended with for them: a stat, or a channel not opened
UncachedRows ==
  SelectSeq(last.ret.rows,
            LAMBDA row : get_file_by_name(Db, last.arg[1], row.name) = <<>>)
InfoEvents ==
  SelectSeq(last.log,
            LAMBDA e : e.ev = "stat" \/ (e.ev \in {"open_sftp", "connect"} /\ ~e.ok))

C18_ListingLeavesStore ==
  last.op = "load_files" =>
    /\ dbFiles = last.pre.dbFiles
    /\ dbFolders = last.pre.dbFolders
    /\ \A i \in 1..Len(last.log) : last.log[i].ev \notin StoreEvents

\* a listing with a file from the store and a file whose stat succeeded
C18_Witness ==
  /\ last.op = "load_files"
  /\ \E i \in 1..Len(last.ret.rows) : last.ret.rows[i].date = "now"
  /\ \E i \in 1..Len(last.ret.rows) : last.ret.rows[i].date = "mtime"

\* C17 as stated: after a successful download or preview fetch of a file
\* the store had no record of, a record for (folder, name) is there with the
\* fetched local path and the remote path root/folder/name, whether or not
\* the stat that follows succeeds.
C17_FetchIsRecorded ==
  (/\ last.op \in {"ui_download", "ui_preview"}
   /\ last.ret.res # <<>>
   /\ get_file_by_name(PreDb, last.arg[1], last.arg[2]) = <<>>) =>
    /\ get_file_by_name(Db, last.arg[1], last.arg[2]) # <<>>
    /\ get_file_by_name(Db, last.arg[1], last.arg[2])[1].local_path =
         LocalJoin(last.arg[3], last.arg[2])
    /\ get_file_by_name(Db, last.arg[1], last.arg[2])[1].remote_path =
         RemotePath(last.arg[1], last.arg[2])

\* C19 as stated, for the part a state can show: whenever an operation of the
\* session manager returns a failure, the error it returns is a description,
\* that is a text that is not empty.
C19_FailureIsDescribed ==
  /\ (last.op \in {"connect", "open_sftp"} /\ ~last.ret.ok) => Truthy(last.ret.err)
  /\ (last.op = "execute_command" /\ last.ret.out = <<>>) => Truthy(last.ret.err)
  /\ (last.op = "create_folder" /\ ~last.ret.ok) => last.ret.val # <<>>
  /\ (last.op \in {"list_folders", "list_files"} /\ last.ret.err # <<>>) =>
       Truthy(last.ret.err)
  /\ (last.op = "upload_file" /\ last.ret.res = <<>>) => Truthy(last.ret.err)

\* C20: when the store refuses the record after a successful upload, or the
\* folder row after a successful create_folder, the handler makes no further
\* remote call and the remote file or folder stays.
C20_NoRollback ==
  /\ (last.op = "ui_upload" /\ Failed(last.log, "db_add_file")) =>
       /\ last.log[Len(last.log)].ev = "db_add_file"
       /\ ~Has(last.log, "remove")
       /\ HasFile(Cur, last.ret.res[1].path)
       /\ SizeOf(Cur, last.ret.res[1].path) = last.ret.res[1].size
  /\ (last.op = "ui_create_folder" /\ Failed(last.log, "db_add_folder")) =>
       /\ last.log[Len(last.log)].ev = "db_add_folder"
       /\ last.ret.val \in Range(rDirs)
       /\ \A i \in 1..Len(last.pre.rDirs) : last.pre.rDirs[i] \in Range(rDirs)

\* an upload whose record is refused because the folder has no row
C20_Witness ==
  /\ last.op = "ui_upload"
  /\ Failed(last.log, "db_add_file")
  /\ get_folder_id(Db, last.arg[2]) = None
  /\ HasFile(Cur, last.ret.res[1].path)

\* the operations of the session manager, by what `last` calls them
TransferOps == {"upload_file", "get_file_info", "download_file", "delete_file"}
CommandOps == {"execute_command", "create_folder", "list_folders", "list_files"}
SessionOps == TransferOps \cup CommandOps \cup {"connect", "open_sftp"}

CountEv(log, e) == Cardinality({i \in 1..Len(log) : log[i].ev = e})

\* what the operation returned is its failure form
ReturnedFailure ==
  IF "ok" \in DOMAIN last.ret THEN ~last.ret.ok
  ELSE IF "res" \in DOMAIN last.ret THEN last.ret.res = <<>>
  ELSE IF "out" \in DOMAIN last.ret THEN last.ret.out = <<>>
  ELSE last.ret.err # <<>>

\* C21: within one invocation of an operation of the session manager,
\* connect, the opening of the channel and each remote primitive (exec, put,
\* get, remove, stat) are issued at most once; a call that fails is the last
\* call of the operation, and the operation returns its failure.
C21_NoRetry ==
  last.op \in SessionOps =>
    /\ \A e \in {"connect", "open_sftp", "exec", "put", "get", "remove", "stat"} :
         CountEv(last.log, e) <= 1
    /\ \A i \in 1..Len(last.log) : ~last.log[i].ok => i = Len(last.log)
    /\ (last.log # <<>> /\ ~last.log[Len(last.log)].ok) => ReturnedFailure

\* a download that connected, opened the channel and whose get failed
C21_Witness ==
  /\ last.op = "download_file"
  /\ Evs(last.log) = <<"connect", "open_sftp", "get">>
  /\ Failed(last.log, "get")
  /\ last.ret.res = <<>>

C23_ConnectsWhenNotConnected ==
  (/\ last.op \in TransferOps \cup CommandOps
   /\ (last.pre.client = None \/ conns[last.pre.client] # "open")) =>
    /\ last.log # <<>>
    /\ last.log[1].ev = "connect"

\* C24: the store holds at most one file record per folder id and name, and
\* after a successful add_file(name, folder, local, remote, size) the record
\* get_file_by_name(folder, name) returns carries the local path, the remote
\* path and the size of that call.
C24_AddFileOverwrites ==
  /\ \A r1 \in dbFiles, r2 \in dbFiles :
       (r1.folder_id = r2.folder_id /\ r1.name = r2.name) => r1 = r2
  /\ (last.op = "add_file" /\ last.ret.ok) =>
       /\ get_file_by_name(Db, last.arg[2], last.arg[1]) # <<>>
       /\ get_file_by_name(Db, last.arg[2], last.arg[1])[1].local_path = last.arg[3]
       /\ get_file_by_name(Db, last.arg[2], last.arg[1])[1].remote_path = last.arg[4]
       /\ get_file_by_name(Db, last.arg[2], last.arg[1])[1].size = last.arg[5]

\* a successful add_file on a (folder, name) that had a record with another
\* local path and size
C24_Witness ==
  /\ last.op = "add_file"
  /\ last.ret.ok
  /\ get_file_by_name(PreDb, last.arg[2], last.arg[1]) # <<>>
  /\ get_file_by_name(PreDb, last.arg[2], last.arg[1])[1].local_path # last.arg[3]
  /\ get_file_by_name(PreDb, last.arg[2], last.arg[1])[1].size # last.arg[5]

\* C26 as stated: a record (folder, name) retrievable before a folder-list
\* refresh, for a folder the fresh listing names, is retrievable after it.
C26_RefreshKeepsRecords ==
  (last.op \in Refreshes /\ ~Truthy(last.ret.err)) =>
    \A n \in Range(last.ret.names), r \in last.pre.dbFiles :
      get_file_by_name(PreDb, n, r.name) = <<r>> =>
        get_file_by_name(Db, n, r.name) = <<r>>

\* C27 as stated: when list_folders fails, a folder-list refresh leaves the
\* folder records as they were and clear_folders is not called.
C27_FailedListingKeepsFolders ==
  (last.op \in Refreshes /\ last.ret.err # <<>>) =>
    /\ dbFolders = last.pre.dbFolders
    /\ ~Has(last.log, "db_clear")

\* C30: add_file for a folder that has no folder record fails with "Folder
\* not found in database" and leaves the file table as it was; a record that
\* add_file writes carries the id of a folder record that was there.
C30_AddFileNeedsFolder ==
  /\ (last.op = "add_file" /\ get_folder_id(PreDb, last.arg[2]) = None) =>
       /\ ~last.ret.ok
       /\ last.ret.err = Some(ErrFolderNotFound)
       /\ dbFiles = last.pre.dbFiles
  /\ last.op = "add_file" =>
       \A r \in dbFiles \ last.pre.dbFiles :
         \E f \in last.pre.dbFolders : f.id = r.folder_id /\ f.name = last.arg[2]

\* add_file refused for a folder whose row was cleared, file records of the
\* folder's earlier id still in the table
C30_Witness ==
  /\ last.op = "add_file"
  /\ get_folder_id(PreDb, last.arg[2]) = None
  /\ ~last.ret.ok
  /\ dbFiles # {}

\* C28 as stated: whenever both handles are set, the channel was derived
\* from the connection the session holds, so that no transfer request goes
\* out on a channel of a connection the session no longer holds.
C28_ChannelOfCurrentConnection ==
  (client # None /\ sftp # None) => chans[sftp].parent = client

OpenConnections == {i \in 1..Len(conns) : conns[i] = "open"}
OpenChannels == {i \in 1..Len(chans) : chans[i].open}

\* C29 as stated: at most one connection and at most one channel opened by
\* the session are open at any time, and after close() none is.
C29_OneConnectionOneChannel ==
  /\ Cardinality(OpenConnections) <= 1
  /\ Cardinality(OpenChannels) <= 1
  /\ last.op = "close" => OpenConnections = {} /\ OpenChannels = {}

Absent(v) == app.env[v] = <<>>

\* C25 as stated: when the host, the port, the user, the password or the
\* remote root is absent from the configuration, the start is blocked with a
\* configuration error (validate_config fails, or the import of config.py
\* does before it): the store and the session manager are not created and no
\* connect() is attempted.
C25_AbsentBlocksStartup ==
  (/\ app.phase # "unstarted"
   /\ \E v \in DOMAIN app.env : Absent(v)) =>
    /\ app.phase \in {"blocked", "import_error"}
    /\ ~app.db /\ ~app.ssh
    /\ conns = <<>>

\* C25, amended: the port is not required, an absent port is DefaultPort.
\* When the host, the user, the password or the remote root is absent or
\* empty (the port absent or a number), validate_config fails naming every
\* one of them, the store and the session manager are not created and no
\* connect() is attempted; with the four present the application starts, on
\* DefaultPort when the port is absent.
C25_RequiredBlocksStartup ==
  (app.phase # "unstarted" /\ PortOf(app.env).ok) =>
    IF \E i \in 1..Len(RequiredVars) : ~Truthy(app.env[RequiredVars[i]])
    THEN /\ app.phase = "blocked"
         /\ ~last.ret.ok
         /\ \A i \in 1..Len(RequiredVars) :
              ~Truthy(app.env[RequiredVars[i]]) <=>
                RequiredVars[i] \in Range(last.ret.missing)
         /\ ~app.db /\ ~app.ssh
         /\ conns = <<>>
    ELSE /\ app.phase = "running"
         /\ app.db /\ app.ssh
         /\ Has(last.log, "connect")
         /\ Absent("SSH_PORT") => app.port = DefaultPort

\* a start blocked for the password alone, the port absent
C25_Witness ==
  /\ app.phase = "blocked"
  /\ Absent("SSH_PORT")
  /\ Absent("SSH_PASSWORD")
  /\ last.ret.missing = <<"SSH_PASSWORD">>
  /\ conns = <<>>

====
